---- MODULE Spec2Model ----
(***************************************************************************)
(* State machine of the React application in src/unnamed/part_000: the App *)
(* page switch, the CardComponent click counter and DataFetcherComponent   *)
(* with its asynchronous fetchData.                                        *)
(*                                                                         *)
(* Every mount of DataFetcherComponent is one activation.  Activations are *)
(* numbered 1, 2, ... in mount order; fetchers[a] holds the hook state     *)
(* (data, loading, error) of activation a together with the position and   *)
(* the locals of its fetchData closure.  An activation whose component was *)
(* unmounted stays in the sequence: its closure is still alive while the   *)
(* request is in flight and still holds the three setters.                 *)
(*                                                                         *)
(* Strings that the program builds (the error message) are sequences of    *)
(* one-character strings; strings it only passes through are TLA+ strings. *)
(***************************************************************************)
EXTENDS Integers, Sequences, FiniteSets, TLC

(* ---------------------------- bounds ----------------------------------- *)
MaxActivations == 2
MaxClicks == 2

(* ---------------------------- values ----------------------------------- *)
Pages == {"home", "data"}

HomeCards == {"intro", "typescript", "localstate"}
DataCard == "fetched"

Null == [tag |-> "null"]

Post(id, title, body) == [tag |-> "post", id |-> id, title |-> title, body |-> body]

Posts == {Post(1, t, b) : t \in {"", "T"}, b \in {"", "B"}}

\* What the endpoint may answer: a status and a body.  A body is either not
\* JSON at all, or JSON text for null, or JSON text for a post.
Malformed == [kind |-> "malformed"]
JsonBody(v) == [kind |-> "json", value |-> v]
Bodies == {Malformed, JsonBody(Null)} \cup {JsonBody(p) : p \in Posts}
Statuses == {200, 404, 500}
Responses == [tag : {"response"}, status : Statuses, body : Bodies]
NoResponse == [tag |-> "none"]

\* Error objects thrown by the runtime: fetch rejects with a TypeError,
\* response.json() rejects with a SyntaxError.
ErrorObj(name, message) == [tag |-> "error", name |-> name, message |-> message]
TransportErrors == {ErrorObj("TypeError", <<"F", "a", "i", "l", "e", "d">>)}
ParseErrors == {ErrorObj("SyntaxError", <<"J", "S", "O", "N">>)}

(* ---------------------------- pure helpers ----------------------------- *)
DigitChar(d) ==
  CASE d = 0 -> "0" [] d = 1 -> "1" [] d = 2 -> "2" [] d = 3 -> "3"
    [] d = 4 -> "4" [] d = 5 -> "5" [] d = 6 -> "6" [] d = 7 -> "7"
    [] d = 8 -> "8" [] d = 9 -> "9"

RECURSIVE NumberToString(_)
\* ${response.status}: the decimal digits of a non-negative integer
NumberToString(n) ==
  IF n < 10 THEN <<DigitChar(n)>>
  ELSE NumberToString(n \div 10) \o <<DigitChar(n % 10)>>

HttpErrorPrefix ==
  <<"H", "T", "T", "P", " ", "e", "r", "r", "o", "r", "!", " ",
    "s", "t", "a", "t", "u", "s", ":", " ">>

\* new Error(`HTTP error! status: ${response.status}`)
HttpError(status) == ErrorObj("Error", HttpErrorPrefix \o NumberToString(status))

\* response.ok (ResponseOkM: the faulty variant without the upper bound)
ResponseOkM(status) == status >= 200
ResponseOk(status) == status >= 200 /\ status <= 299

\* await response.json() on a body that is JSON
ParseJson(body) == body.value

\* useEffect(..., []): the effect runs after the mounting render only
\* (EffectRunsM: the faulty variant without the dependency array, which runs
\* after every render)
EffectRunsM(isMount) == TRUE
EffectRuns(isMount) == isMount

\* setCurrentPage(target): React re-renders (and so unmounts and mounts the
\* page content) only when the state value changes (RemountsM: the faulty
\* variant that remounts on every selection)
RemountsM(cur, target) == TRUE
Remounts(cur, target) == cur # target

\* useState initial values of DataFetcherComponent, and a closure that has
\* not started
InitialFetcher ==
  [data |-> Null, loading |-> TRUE, error |-> Null,
   pc |-> "effect", response |-> NoResponse, parsed |-> FALSE]

\* What is left of an activation once its component is unmounted and its
\* closure has finished: nothing refers to its state any longer
Destroyed ==
  [data |-> Null, loading |-> FALSE, error |-> Null,
   pc |-> "gone", response |-> NoResponse, parsed |-> FALSE]

\* setLoading(true); setError(null); then the call of fetch
EffectWrites(f) == [f EXCEPT !.loading = TRUE, !.error = Null, !.pc = "awaitFetch"]

\* catch (e) { setError(e); ... }  (CatchWritesFallback: a faulty variant
\* that also stores placeholder data; CatchWritesSwallow: one that drops e)
CatchWritesFallback(f, e) ==
  [f EXCEPT !.error = e, !.data = Post(0, "T", "B"), !.pc = "finally"]
CatchWritesSwallow(f, e) == [f EXCEPT !.pc = "finally"]
CatchWrites(f, e) == [f EXCEPT !.error = e, !.pc = "finally"]

\* setData(json)
SetDataWrites(f, json) == [f EXCEPT !.data = json, !.pc = "finally"]

\* finally { setLoading(false); }  (FinallyWritesM: the faulty variant with
\* setLoading(false) on the success path only)
FinallyWritesM(f) == IF f.error # Null THEN f ELSE [f EXCEPT !.loading = FALSE]
FinallyWrites(f) == [f EXCEPT !.loading = FALSE]

\* data?.title || 'No Title': || replaces every falsy value, the empty
\* string included (TitlePropM: the variant with ?? in place of ||)
TitlePropM(data) == IF data = Null THEN "No Title" ELSE data.title
TitleProp(data) ==
  IF data = Null THEN "No Title"
  ELSE IF data.title = "" THEN "No Title" ELSE data.title

\* data?.body || 'No content found.'
ContentProp(data) ==
  IF data = Null THEN "No content found."
  ELSE IF data.body = "" THEN "No content found." ELSE data.body

\* The conditional rendering of DataFetcherComponent
Render(f) ==
  IF f.loading THEN [view |-> "loading"]
  ELSE IF f.error # Null THEN [view |-> "error", message |-> f.error.message]
  ELSE [view |-> "card", title |-> TitleProp(f.data), content |-> ContentProp(f.data)]

\* setClickCount(prevCount => prevCount + 1) of the clicked card instance
\* (handleCardClickShared: the faulty variant with one counter for all cards)
handleCardClickShared(counts, c) == [d \in DOMAIN counts |-> counts[d] + 1]
handleCardClick(counts, c) == [counts EXCEPT ![c] = @ + 1]

\* Clicked: {clickCount} time{clickCount !== 1 ? 's' : ''}
CountDisplay(n) == [count |-> n, plural |-> (n # 1)]

(* ---------------------------- state ------------------------------------ *)
VARIABLES
  currentPage,  \* App: useState<Page>
  fetchers,     \* one record per activation of DataFetcherComponent
  net,          \* per activation: requests started and settled by the network
  clickCount,   \* clickCount of every mounted CardComponent
  clickLog,     \* click events delivered to every mounted CardComponent
  lastEvent     \* the event handled last

vars == <<currentPage, fetchers, net, clickCount, clickLog, lastEvent>>

Activations == 1..Len(fetchers)

\* The activation whose component is mounted, 0 when none is
MountedIn(page, fs) == IF page = "data" THEN Len(fs) ELSE 0
Mounted == MountedIn(currentPage, fetchers)

\* The CardComponent instances on screen
MountedCards(page, fs) ==
  IF page = "home" THEN HomeCards
  ELSE IF Len(fs) > 0 /\ Render(fs[Len(fs)]).view = "card" THEN {DataCard}
  ELSE {}

\* Instances that stay mounted keep their state, new ones start from
\* useState(0)
Reconcile(counts, cards) ==
  [c \in cards |-> IF c \in DOMAIN counts THEN counts[c] ELSE 0]

\* JavaScript runs a handler or a continuation to completion: no event is
\* handled while an effect is pending or a continuation is between its writes
Idle == \A a \in Activations : fetchers[a].pc \notin {"effect", "finally"}

Event(op, arg, from) == [op |-> op, arg |-> arg, from |-> from]

Init ==
  /\ currentPage = "home"
  /\ fetchers = <<>>
  /\ net = <<>>
  /\ clickCount = [c \in HomeCards |-> 0]
  /\ clickLog = [c \in HomeCards |-> 0]
  /\ lastEvent = Event("init", "none", "home")

(* ---------------------------- actions ---------------------------------- *)
\* onClick={() => setCurrentPage(target)} and the render that follows
SelectPage(target) ==
  /\ Idle
  /\ lastEvent' = Event("select", target, currentPage)
  /\ IF Remounts(currentPage, target)
     THEN /\ currentPage' = target
          /\ IF target = "data"
             THEN /\ Len(fetchers) < MaxActivations
                  /\ fetchers' = Append(fetchers, InitialFetcher)
                  /\ net' = Append(net, [started |-> 0, settled |-> 0])
             ELSE /\ fetchers' = [a \in Activations |->
                                   IF fetchers[a].pc = "done" THEN Destroyed
                                   ELSE fetchers[a]]
                  /\ UNCHANGED net
          /\ clickCount' = Reconcile(<<>>, MountedCards(target, fetchers'))
          /\ clickLog' = Reconcile(<<>>, MountedCards(target, fetchers'))
     ELSE UNCHANGED <<currentPage, fetchers, net, clickCount, clickLog>>

\* onClick={handleCardClick} of one mounted card
CardClick(c) ==
  /\ Idle
  /\ c \in DOMAIN clickCount
  /\ clickLog[c] < MaxClicks
  /\ clickCount' = handleCardClick(clickCount, c)
  /\ clickLog' = [clickLog EXCEPT ![c] = @ + 1]
  /\ lastEvent' = Event("click", "none", currentPage)
  /\ UNCHANGED <<currentPage, fetchers, net>>

\* The effect: fetchData() up to its first await
RunEffect(a) ==
  /\ a \in Activations
  /\ fetchers[a].pc = "effect"
  /\ fetchers' = [fetchers EXCEPT ![a] = EffectWrites(@)]
  /\ net' = [net EXCEPT ![a].started = @ + 1]
  /\ lastEvent' = Event("effect", "none", currentPage)
  /\ clickCount' = Reconcile(clickCount, MountedCards(currentPage, fetchers'))
  /\ clickLog' = Reconcile(clickLog, MountedCards(currentPage, fetchers'))
  /\ UNCHANGED currentPage

\* await fetch(...) settles: it rejects, or resolves with a response
FetchSettle(a) ==
  /\ Idle
  /\ a \in Activations
  /\ fetchers[a].pc = "awaitFetch"
  /\ net' = [net EXCEPT ![a].settled = @ + 1]
  /\ lastEvent' = Event("fetchSettle", "none", currentPage)
  /\ \/ \E e \in TransportErrors :
          fetchers' = [fetchers EXCEPT ![a] = CatchWrites(@, e)]
     \/ \E r \in Responses :
          IF ~ResponseOk(r.status)
          THEN fetchers' = [fetchers EXCEPT
                  ![a] = CatchWrites([@ EXCEPT !.response = r], HttpError(r.status))]
          ELSE fetchers' = [fetchers EXCEPT
                  ![a] = [@ EXCEPT !.response = r, !.parsed = TRUE, !.pc = "awaitJson"]]
  /\ UNCHANGED <<currentPage, clickCount, clickLog>>

\* await response.json() settles: it rejects, or resolves with the value
JsonSettle(a) ==
  /\ Idle
  /\ a \in Activations
  /\ fetchers[a].pc = "awaitJson"
  /\ lastEvent' = Event("jsonSettle", "none", currentPage)
  /\ IF fetchers[a].response.body = Malformed
     THEN \E e \in ParseErrors :
            fetchers' = [fetchers EXCEPT ![a] = CatchWrites(@, e)]
     ELSE fetchers' = [fetchers EXCEPT
            ![a] = SetDataWrites(@, ParseJson(@.response.body))]
  /\ UNCHANGED <<currentPage, net, clickCount, clickLog>>

\* The finally block, and the render its write causes; the closure of an
\* unmounted activation ends here
Finally(a) ==
  /\ a \in Activations
  /\ fetchers[a].pc = "finally"
  /\ fetchers' = [fetchers EXCEPT
        ![a] = IF a # Mounted THEN Destroyed
               ELSE [FinallyWrites(@) EXCEPT
                       !.pc = IF EffectRuns(FALSE) THEN "effect" ELSE "done"]]
  /\ lastEvent' = Event("finally", "none", currentPage)
  /\ clickCount' = Reconcile(clickCount, MountedCards(currentPage, fetchers'))
  /\ clickLog' = Reconcile(clickLog, MountedCards(currentPage, fetchers'))
  /\ UNCHANGED <<currentPage, net>>

Next ==
  \/ \E p \in Pages : SelectPage(p)
  \/ \E c \in HomeCards \cup {DataCard} : CardClick(c)
  \/ \E a \in 1..MaxActivations : RunEffect(a)
  \/ \E a \in 1..MaxActivations : FetchSettle(a)
  \/ \E a \in 1..MaxActivations : JsonSettle(a)
  \/ \E a \in 1..MaxActivations : Finally(a)

Spec == Init /\ [][Next]_vars

\* The continuation that follows a settled await is a microtask: it runs
LiveSpec == Spec /\ \A a \in 1..MaxActivations : WF_vars(Finally(a))

(* ---------------------------- properties ------------------------------- *)
HookState(f) == <<f.data, f.loading, f.error>>

\* Both awaits of activation a are behind it and the continuation is running
Settled(a) == a \in Activations /\ fetchers[a].pc = "finally"

\* t occurs in s as a contiguous run of characters
Contains(s, t) ==
  \E i \in 1..(Len(s) - Len(t) + 1) : SubSeq(s, i, i + Len(t) - 1) = t

\* The payload of a 2xx response whose body is JSON for a post
HasPayload(f) ==
  /\ f.response # NoResponse
  /\ ResponseOk(f.response.status)
  /\ f.response.body # Malformed
  /\ f.response.body.value # Null

NoWriteAfterDeactivation ==
  [][\A a \in Activations :
       a # Mounted => HookState(fetchers'[a]) = HookState(fetchers[a])]_vars

OneRequestPerActivation ==
  /\ Len(net) = Len(fetchers)
  /\ \A a \in Activations :
       /\ net[a].started = IF fetchers[a].pc = "effect" THEN 0 ELSE 1
       /\ fetchers[a].pc \in {"done", "gone"} => net[a].settled = 1
       /\ net[a].started - net[a].settled \in {0, 1}
       /\ net[a].started - net[a].settled = 1 <=> fetchers[a].pc = "awaitFetch"

\* C4 witness: a finished activation and a later, failed one that has since
\* seen a page selection, each with one request.
FailedThenMountedAgain ==
  /\ Len(fetchers) >= 2
  /\ Mounted = 2
  /\ fetchers[1].pc = "gone"
  /\ net[1].started = 1
  /\ fetchers[2].pc = "done" /\ fetchers[2].error # Null
  /\ net[2].started = 1
  /\ lastEvent.op = "select"

\* C5 as stated: whenever 'data' has just been selected, from 'home' or from
\* 'data', the home cards are gone and the mounted fetcher is a fresh cycle
\* in Loading whose request is about to be issued.
SelectDataRestarts ==
  (lastEvent.op = "select" /\ lastEvent.arg = "data") =>
    /\ DOMAIN clickCount \cap HomeCards = {}
    /\ Mounted # 0
    /\ fetchers[Mounted].loading
    /\ fetchers[Mounted].pc = "effect"
    /\ net[Mounted].started = 0

\* C5 amended: selecting 'data' from 'home' unmounts the home cards and
\* mounts one new activation in Loading, whose effect then starts its one
\* request; selecting 'data' while 'data' is current changes nothing.
SelectDataFromHomeOnly ==
  [][/\ lastEvent'.op = "select" /\ lastEvent'.arg = "data" =>
          IF currentPage = "home"
          THEN /\ currentPage' = "data"
               /\ Len(fetchers') = Len(fetchers) + 1
               /\ SubSeq(fetchers', 1, Len(fetchers)) = fetchers
               /\ net' = Append(net, [started |-> 0, settled |-> 0])
               /\ fetchers'[Len(fetchers')].loading
               /\ fetchers'[Len(fetchers')].pc = "effect"
               /\ DOMAIN clickCount' \cap HomeCards = {}
          ELSE UNCHANGED <<currentPage, fetchers, net, clickCount, clickLog>>
     /\ lastEvent'.op = "effect" =>
          /\ net'[Mounted'].started = 1
          /\ fetchers'[Mounted'].loading
          /\ fetchers'[Mounted'].pc = "awaitFetch"]_vars

\* C5 witness: 'data' was selected while a resolved 'data' page was current.
ReselectedWhileResolved ==
  /\ lastEvent.op = "select"
  /\ lastEvent.arg = "data"
  /\ lastEvent.from = "data"
  /\ fetchers[Mounted].pc = "done"

\* C6: a non-2xx response ends the activation Failed with the status in the
\* message, loading false, the body never parsed, data null, and the error
\* view showing that message.
NonOkStatusFails ==
  \A a \in Activations :
    LET f == fetchers[a]
    IN  (f.pc = "done" /\ f.response # NoResponse /\ ~(f.response.status \in 200..299)) =>
          /\ f.error # Null
          /\ Contains(f.error.message, NumberToString(f.response.status))
          /\ ~f.loading
          /\ ~f.parsed
          /\ f.data = Null
          /\ a = Mounted =>
               Render(f) = [view |-> "error", message |-> f.error.message]

\* C6 witness: the mounted activation is done after a 404.
Done404 ==
  /\ Mounted # 0
  /\ fetchers[Mounted].pc = "done"
  /\ fetchers[Mounted].response # NoResponse
  /\ fetchers[Mounted].response.status = 404

\* fetch rejected, or response.json() rejected on a 2xx response
TransportFailed(f) == f.pc = "done" /\ f.response = NoResponse /\ ~f.parsed
ParseFailed(f) ==
  /\ f.pc = "done"
  /\ f.response # NoResponse
  /\ f.response.status \in 200..299
  /\ f.response.body = Malformed

\* C7: a transport failure and a malformed body both end in Failed with
\* data null, and while the error view is shown both page selections stay
\* enabled (an event is handled as soon as no continuation is running).
FailuresCollapseToFailed ==
  \A a \in Activations :
    LET f == fetchers[a]
    IN  (TransportFailed(f) \/ ParseFailed(f)) =>
          /\ f.error # Null
          /\ ~f.loading
          /\ f.data = Null
          /\ a = Mounted => Render(f).view = "error"
          /\ (a = Mounted /\ Idle) =>
               ENABLED SelectPage("home") /\ ENABLED SelectPage("data")

\* C7 witness: the mounted activation failed in parsing and a page
\* selection was handled while its error view was shown.
ParseFailureThenSelect ==
  /\ Mounted # 0
  /\ ParseFailed(fetchers[Mounted])
  /\ lastEvent.op = "select"

\* C8 as stated: the card shows exactly the payload's title and body, for
\* every string including the empty one.
CardShowsPayload ==
  (Mounted # 0 /\ fetchers[Mounted].pc = "done" /\ HasPayload(fetchers[Mounted])) =>
    LET p == fetchers[Mounted].response.body.value
        r == Render(fetchers[Mounted])
    IN  r.view = "card" /\ r.title = p.title /\ r.content = p.body

\* C8 amended: the card shows the payload's title and body when they are
\* non-empty, and 'No Title' / 'No content found.' in place of an empty one.
CardShowsPayloadOrFallback ==
  (Mounted # 0 /\ fetchers[Mounted].pc = "done" /\ HasPayload(fetchers[Mounted])) =>
    LET p == fetchers[Mounted].response.body.value
        r == Render(fetchers[Mounted])
    IN  /\ r.view = "card"
        /\ p.title # "" => r.title = p.title
        /\ p.title = "" => r.title = "No Title"
        /\ p.body # "" => r.content = p.body
        /\ p.body = "" => r.content = "No content found."

\* C8 witness: a loaded payload with an empty title and a non-empty body.
LoadedEmptyTitle ==
  /\ Mounted # 0
  /\ fetchers[Mounted].pc = "done"
  /\ HasPayload(fetchers[Mounted])
  /\ fetchers[Mounted].response.body.value.title = ""
  /\ fetchers[Mounted].response.body.value.body = "B"

\* C9: every mounted card displays the number of clicks it has received
\* since it was mounted, whatever the clicks on the other cards.
CountEqualsClicks ==
  /\ DOMAIN clickCount = MountedCards(currentPage, fetchers)
  /\ DOMAIN clickLog = DOMAIN clickCount
  /\ \A c \in DOMAIN clickCount : CountDisplay(clickCount[c]).count = clickLog[c]

\* C9 witness: the three home cards after 2, 0 and 1 clicks.
UnevenClicks ==
  /\ currentPage = "home"
  /\ clickLog["intro"] = 2
  /\ clickLog["typescript"] = 0
  /\ clickLog["localstate"] = 1

\* C10: once the awaits of an activation have settled, on any path, its
\* loading eventually becomes false.
SettledLeadsToNotLoading ==
  \A a \in 1..MaxActivations :
    Settled(a) ~> (a \in Activations /\ ~fetchers[a].loading)

\* C10 witness: the mounted activation left Loading through the catch path.
LeftLoadingAfterError ==
  /\ Mounted # 0
  /\ fetchers[Mounted].pc = "done"
  /\ fetchers[Mounted].error # Null
  /\ ~fetchers[Mounted].loading
  /\ lastEvent.op = "finally"

====
